---- MODULE Spec2Model ----
(***************************************************************************)
(* A model of the ERCOT public-reports client (src/ercot_api.py) and of    *)
(* the dashboard script that drives it (src/streamlit_bo_dashboard.py).    *)
(*                                                                         *)
(* Two specifications share the module:                                    *)
(*   Spec      the client's token handling and the paged, recursive        *)
(*             retrieval of ERCOTAPI.__get_data, one step per network      *)
(*             exchange;                                                   *)
(*   SpecGrid  the grid-normalizing getters (get_dam_lmp, get_dam_spp,     *)
(*             get_rtm_spp_lz, get_rtm_spp_hub, get_rtm_spp_rn) applied to *)
(*             the record set __get_data hands them.                       *)
(***************************************************************************)
EXTENDS Integers, Sequences, FiniteSets, TLC

VARIABLES
    \* ---- Spec: client, token and paged fetch ----
    now,                    \* wall clock, dt.datetime.now(), in minutes
    app,                    \* who drives the client: "script" or "dashboard"
    pc,                     \* control position of the single thread
    ret,                    \* where get_connection_status returns to
    access_token,           \* self.__access_token (0: none yet)
    authentication_header,  \* self.__authentication_header
    connection_cutoff,      \* self.__connection_cutoff
    last_status,            \* status code of the last connection probe (0: none)
    acquired_at,            \* time of the last successful token acquisition
    token_log,              \* identity provider: outcome of each credential exchange
    raw_data,               \* __get_data's accumulator
    current_page,           \* __get_data's current_page / loop variable page
    num_pages,              \* __get_data's num_pages
    retries,                \* recursive re-entries of the running fetch, by kind
    sent,                   \* report requests sent by the running fetch
    error,                  \* exception that left the client code ("" : none)
    params,                 \* __get_data's params mapping, in key order
    rq_link,                \* __get_data's rq_link
    request,                \* the last report request of the running fetch
    slept,                  \* time.sleep(.5) ran since that request
    username,               \* self.__username
    password,               \* self.__password
    api_key,                \* self.__api_key
    call,                   \* the last public method the driver invoked
    default_raw_data,       \* the one object behind __get_data's default raw_data
    returned,               \* the record set the last finished fetch returned
    \* ---- SpecThreads: two fetches entering __get_data at once ----
    threads,                \* each thread's position and what it did
    \* ---- SpecGrid: the grid-normalizing getters ----
    gpc,                    \* "collect" | "returned"
    records,                \* the RawRecordSet a getter receives from __get_data
    fetched,                \* pages of it fetched so far
    deliveryDateFrom,       \* requested range, as day ordinals
    deliveryDateTo,
    getter,                 \* the getter that ran ("" : none yet)
    result                  \* what the getter returned or raised

fetchVars == <<now, app, pc, ret, access_token, authentication_header,
               connection_cutoff, last_status, acquired_at, token_log, raw_data,
               current_page, num_pages, retries, sent, error, params, rq_link,
               request, slept, username, password, api_key, call,
               default_raw_data, returned>>
callVars == <<default_raw_data, returned>>
threadVars == <<threads>>
queryVars == <<params, rq_link, request, slept>>
credentialVars == <<username, password, api_key, call>>
gridVars == <<gpc, records, fetched, deliveryDateFrom, deliveryDateTo, getter,
              result>>
vars == <<fetchVars, gridVars, threadVars>>

(***************************************************************************)
(* Bounds of the model.                                                    *)
(***************************************************************************)
TimeStep == 25
MaxTime == 100
MaxExchanges == 3
MaxPages == 3
MaxRetries == 2
RecordsPerPage == 2

(***************************************************************************)
(* Program constants.                                                      *)
(***************************************************************************)
TokenLookahead == 50
StatusOK == 200

(***************************************************************************)
(* The upstream services.  The identity provider answers a credential      *)
(* exchange with or without an id_token; the report API answers with a     *)
(* status code and a JSON body whose "_meta" / "data" members may be       *)
(* missing.  A record of page p is the pair <<p, i>>, i its position.      *)
(***************************************************************************)
ProbeStatuses == {StatusOK, 401}

PageData(p) == [i \in 1..RecordsPerPage |-> <<p, i>>]

\* Bodies the API may return for the request without a page parameter.
DiscoveryResponses ==
    [meta : BOOLEAN, totalPages : 0..MaxPages, data : {PageData(1)}]

\* Bodies the API may return for the request of page p.
PageResponses(p) == [hasData : BOOLEAN, data : {PageData(p)}]

(***************************************************************************)
(* Helpers of the client.                                                  *)
(***************************************************************************)
\* line 191: dt.datetime.now() >= self.__connection_cutoff
TokenExpiredStrict == now > connection_cutoff
TokenExpired == now >= connection_cutoff

\* lines 145, 1222: the header built from the token and the API key
HeaderStaleToken(token, key) == [authorization |-> access_token, key |-> key]
Header(token, key) == [authorization |-> token, key |-> key]

\* the threads that share one client
Threads == {1, 2}

(***************************************************************************)
(* Strings.  A string is a sequence of symbols; a parameter name, the base *)
(* link and each digit are one symbol.  An optional string is None or      *)
(* Str(s).                                                                 *)
(***************************************************************************)
None == <<>>
Str(s) == <<s>>

Digits == <<"0", "1", "2", "3", "4", "5", "6", "7", "8", "9">>

\* str(n) of a natural number
RECURSIVE StrOfInt(_)
StrOfInt(n) ==
    IF n < 10 THEN <<Digits[n + 1]>>
    ELSE StrOfInt(n \div 10) \o <<Digits[(n % 10) + 1]>>

\* the link a getter passes to __get_data
Link == <<"https://api.ercot.com/api/public-reports/np4-190-cd/dam_stlmnt_pnt_prices">>

\* the params mappings the getters pass: a date, a settlement point and
\* str(size); an argument left at its default is None
ParamChoices ==
    {<<[name |-> <<"deliveryDateFrom">>, value |-> from],
       [name |-> <<"settlementPoint">>, value |-> point],
       [name |-> <<"size">>, value |-> Str(<<"9">>)]>> :
        from \in {None, Str(<<"2", "0", "2", "4">>)},
        point \in {None, Str(<<>>)}}

\* lines 198-200: for param in params.keys(): if params[param] != None:
\*     rq_link = rq_link + param + "=" + params[param] + "&"
RECURSIVE AppendParams(_, _, _)
AppendParams(rq, ps, k) ==
    IF k > Len(ps) THEN rq
    ELSE AppendParams(IF ps[k].value # None
                        THEN rq \o ps[k].name \o <<"=">> \o ps[k].value[1] \o <<"&">>
                        ELSE rq,
                      ps, k + 1)

\* mutant: a parameter set to the empty string is left out as well
RECURSIVE AppendNonEmptyParams(_, _, _)
AppendNonEmptyParams(rq, ps, k) ==
    IF k > Len(ps) THEN rq
    ELSE AppendNonEmptyParams(
             IF ps[k].value # None /\ ps[k].value # Str(<<>>)
               THEN rq \o ps[k].name \o <<"=">> \o ps[k].value[1] \o <<"&">>
               ELSE rq,
             ps, k + 1)
QueryLinkNonEmpty(link, ps) == AppendNonEmptyParams(link \o <<"?">>, ps, 1)

\* lines 195-200: rq_link
QueryLink(link, ps) == AppendParams(link \o <<"?">>, ps, 1)

\* line 207: get(rq_link[:-1], ...)
DiscoveryUrl(rq) == SubSeq(rq, 1, Len(rq) - 1)

\* line 221: get(rq_link + "page=" + str(page), ...)
PageUrl(rq, page) == rq \o <<"page", "=">> \o StrOfInt(page)

NoRequest == [kind |-> "none", page |-> 0, url |-> <<>>]

\* lines 1150-1211: credentials a setter may be handed
CredentialValues == {1, 2}
SetterNames == {"set_username", "set_password", "set_api_key"}

\* lines 1166, 1187, 1208: if reset_connection:
ResetAlways(reset_connection) == TRUE
ResetRequested(reset_connection) == reset_connection

\* lines 244-251: the cutoff after a probe that returned `status`
CutoffAfterProbeAlways(status) == now + TokenLookahead
CutoffAfterFailedProbe(status) ==
    IF status = StatusOK THEN now + TokenLookahead
                         ELSE acquired_at + TokenLookahead
CutoffAfterProbe(status) ==
    IF status = StatusOK THEN now + TokenLookahead ELSE connection_cutoff

\* lines 207-208: the discovery body is read for _meta.totalPages only
DiscoveryAccumulateData(raw, response) == response.data \o raw
DiscoveryAccumulate(raw, response) == raw

\* line 221: raw_data = pd.concat([DataFrame(page), raw_data])
AccumulateReplace(raw, data) == data
AccumulatePage(raw, data) == data \o raw

\* line 170: raw_data = pd.DataFrame() is evaluated once, when the method is
\* defined; line 221 binds raw_data to the new frame pd.concat returns and
\* leaves the default object as it was
SharedDefaultInPlace(default, accumulated) == accumulated
SharedDefault(default, accumulated) == default

\* line 210: return self.__get_data(link, params)
DiscoveryRetry ==
    [raw_data |-> default_raw_data, current_page |-> 1, num_pages |-> 0]

\* line 223: return self.__get_data(link, params, raw_data, page, num_pages)
PageRetryRestart(raw, page, n) ==
    [raw_data |-> raw, current_page |-> 1, num_pages |-> n]
PageRetry(raw, page, n) ==
    [raw_data |-> raw, current_page |-> page, num_pages |-> n]

\* lines 204, 217: where __get_data goes once the query string is built
AfterEntryAlwaysDiscover(page, n) == "discover"
AfterEntry(page, n) ==
    IF n = 0 THEN "discover" ELSE IF page <= n THEN "page" ELSE "done"

(***************************************************************************)
(* Spec: initial state, before the client is constructed.                  *)
(***************************************************************************)
GridIdle ==
    /\ gpc = "collect"
    /\ records = <<>>
    /\ fetched = 0
    /\ deliveryDateFrom = 1
    /\ deliveryDateTo = 1
    /\ getter = ""
    /\ result = [kind |-> "none"]

\* no thread has entered __get_data
ThreadsIdle ==
    threads = [t \in Threads |-> [pc |-> "none", exchanged |-> FALSE,
                                  seen_cutoff |-> 0]]

Init ==
    /\ now = 0
    /\ app \in {"script", "dashboard", "admin"}
    /\ pc = "start"
    /\ ret = "ctor"
    /\ access_token = 0
    /\ authentication_header = Header(0, 0)
    /\ connection_cutoff = 0
    /\ last_status = 0
    /\ acquired_at = 0
    /\ token_log = <<>>
    /\ raw_data = <<>>
    /\ current_page = 1
    /\ num_pages = 0
    /\ retries = [discovery |-> 0, page |-> 0]
    /\ sent = 0
    /\ error = ""
    /\ params = <<>>
    /\ rq_link = <<>>
    /\ request = NoRequest
    /\ slept = FALSE
    /\ username = 1
    /\ password = 1
    /\ api_key = 1
    /\ call = [name |-> "", reset |-> FALSE]
    /\ default_raw_data = <<>>
    /\ returned = <<>>
    /\ ThreadsIdle
    /\ GridIdle

\* time passes while the program runs
Tick ==
    /\ pc \notin {"start", "error"}
    /\ now + TimeStep <= MaxTime
    /\ now' = now + TimeStep
    /\ UNCHANGED <<app, pc, ret, access_token, authentication_header,
                   connection_cutoff, last_status, acquired_at, token_log,
                   raw_data, current_page, num_pages, retries, sent, error>>
    /\ UNCHANGED <<queryVars, credentialVars, gridVars, callVars, threadVars>>

\* lines 141-146: ERCOTAPI.__init__ up to the connection probe.  The
\* credential exchange (lines 153-168) raises KeyError when the identity
\* response has no id_token.
ERCOTAPI_init ==
    /\ pc = "start"
    /\ Len(token_log) < MaxExchanges
    /\ \E id_token \in BOOLEAN :
         /\ token_log' = Append(token_log, id_token)
         /\ IF id_token
              THEN /\ access_token' = Len(token_log) + 1
                   /\ authentication_header' = Header(Len(token_log) + 1, api_key)
                   /\ connection_cutoff' = now
                   /\ acquired_at' = now
                   /\ pc' = "probe"
                   /\ ret' = "ctor"
                   /\ error' = error
              ELSE /\ pc' = "error"
                   /\ error' = "KeyError"
                   /\ UNCHANGED <<access_token, authentication_header,
                                  connection_cutoff, acquired_at, ret>>
    /\ UNCHANGED <<now, app, last_status, raw_data, current_page, num_pages,
                   retries, sent>>
    /\ UNCHANGED <<queryVars, credentialVars, gridVars, callVars, threadVars>>

\* lines 232-251: get_connection_status, the probe request and its outcome;
\* control returns to the constructor, to set_api_connection's caller or into
\* __get_data, which goes on to build the query string (lines 194-200).
get_connection_status ==
    /\ pc = "probe"
    /\ \E status \in ProbeStatuses :
         /\ last_status' = status
         /\ connection_cutoff' = CutoffAfterProbe(status)
    /\ pc' = IF ret = "fetch" THEN AfterEntry(current_page, num_pages) ELSE "idle"
    /\ rq_link' = IF ret = "fetch" THEN QueryLink(Link, params) ELSE rq_link
    /\ UNCHANGED <<now, app, ret, access_token, authentication_header,
                   acquired_at, token_log, raw_data, current_page, num_pages,
                   retries, sent, error>>
    /\ UNCHANGED <<params, request, slept, credentialVars, gridVars, callVars, threadVars>>

\* lines 1213-1222: set_api_connection up to the connection probe, with the
\* API key the object holds when it runs
SetConnection(returnTo, key) ==
    /\ Len(token_log) < MaxExchanges
    /\ \E id_token \in BOOLEAN :
         /\ token_log' = Append(token_log, id_token)
         /\ IF id_token
              THEN /\ access_token' = Len(token_log) + 1
                   /\ authentication_header' = Header(Len(token_log) + 1, key)
                   /\ acquired_at' = now
                   /\ pc' = "probe"
                   /\ ret' = returnTo
                   /\ error' = error
              ELSE /\ pc' = "error"
                   /\ error' = "KeyError"
                   /\ UNCHANGED <<access_token, authentication_header,
                                  acquired_at, ret>>

\* lines 1213-1227: set_api_connection called by the driver
set_api_connection ==
    /\ pc = "idle"
    /\ app \in {"script", "admin"}
    /\ SetConnection("user", api_key)
    /\ call' = [name |-> "set_api_connection", reset |-> FALSE]
    /\ UNCHANGED <<now, app, connection_cutoff, last_status, raw_data,
                   current_page, num_pages, retries, sent>>
    /\ UNCHANGED <<queryVars, username, password, api_key, gridVars, callVars, threadVars>>

\* lines 1150-1211: a setter stores its argument, then resets the connection
\* when asked to
Setter(name, reset_connection, key) ==
    /\ pc = "idle"
    /\ app = "admin"
    /\ call' = [name |-> name, reset |-> reset_connection]
    /\ IF ResetRequested(reset_connection)
          THEN SetConnection("user", key)
          ELSE UNCHANGED <<pc, ret, access_token, authentication_header,
                           acquired_at, token_log, error>>
    /\ UNCHANGED <<now, app, connection_cutoff, last_status, raw_data,
                   current_page, num_pages, retries, sent>>
    /\ UNCHANGED <<queryVars, gridVars, callVars, threadVars>>

\* lines 1150-1169
set_username ==
    \E value \in CredentialValues, reset_connection \in BOOLEAN :
        /\ Setter("set_username", reset_connection, api_key)
        /\ username' = value
        /\ UNCHANGED <<password, api_key>>

\* lines 1171-1190
set_password ==
    \E value \in CredentialValues, reset_connection \in BOOLEAN :
        /\ Setter("set_password", reset_connection, api_key)
        /\ password' = value
        /\ UNCHANGED <<username, api_key>>

\* lines 1192-1211
set_api_key ==
    \E value \in CredentialValues, reset_connection \in BOOLEAN :
        /\ Setter("set_api_key", reset_connection, value)
        /\ api_key' = value
        /\ UNCHANGED <<username, password>>

\* line 170: a getter calls __get_data(link, params) with the default
\* raw_data, current_page and num_pages
get_data_call ==
    /\ pc = "idle"
    /\ app = "script"
    /\ pc' = "entry"
    /\ raw_data' = default_raw_data
    /\ current_page' = 1
    /\ num_pages' = 0
    /\ retries' = [discovery |-> 0, page |-> 0]
    /\ sent' = 0
    /\ params' \in ParamChoices
    /\ rq_link' = <<>>
    /\ request' = NoRequest
    /\ slept' = FALSE
    /\ call' = [name |-> "getter", reset |-> FALSE]
    /\ UNCHANGED <<now, app, ret, access_token, authentication_header,
                   connection_cutoff, last_status, acquired_at, token_log, error>>
    /\ UNCHANGED <<username, password, api_key, gridVars, callVars, threadVars>>

\* lines 190-200: entry of __get_data (first call and every recursive
\* re-entry): refresh the connection when the cutoff has passed, then build
\* the query string
get_data_entry ==
    /\ pc = "entry"
    /\ IF TokenExpired
          THEN /\ SetConnection("fetch", api_key)
               /\ rq_link' = rq_link
          ELSE /\ pc' = AfterEntry(current_page, num_pages)
               /\ rq_link' = QueryLink(Link, params)
               /\ UNCHANGED <<access_token, authentication_header, acquired_at,
                              token_log, ret, error>>
    /\ UNCHANGED <<now, app, connection_cutoff, last_status, raw_data,
                   current_page, num_pages, retries, sent>>
    /\ UNCHANGED <<params, request, slept, credentialVars, gridVars, callVars, threadVars>>

\* lines 204-210: the request without a page parameter; a body without
\* _meta.totalPages raises KeyError and __get_data calls itself afresh
get_data_discover ==
    /\ pc = "discover"
    /\ sent' = sent + 1
    /\ request' = [kind |-> "discovery", page |-> 0, url |-> DiscoveryUrl(rq_link)]
    /\ slept' = FALSE
    /\ \E response \in DiscoveryResponses :
         IF response.meta
           THEN /\ num_pages' = response.totalPages
                /\ raw_data' = DiscoveryAccumulate(raw_data, response)
                /\ pc' = IF current_page <= response.totalPages
                            THEN "page" ELSE "done"
                /\ UNCHANGED <<current_page, retries, rq_link>>
           ELSE /\ retries.discovery < MaxRetries
                /\ raw_data' = DiscoveryRetry.raw_data
                /\ current_page' = DiscoveryRetry.current_page
                /\ num_pages' = DiscoveryRetry.num_pages
                /\ retries' = [retries EXCEPT !.discovery = @ + 1]
                /\ rq_link' = <<>>
                /\ pc' = "entry"
    /\ UNCHANGED <<now, app, ret, access_token, authentication_header,
                   connection_cutoff, last_status, acquired_at, token_log, error>>
    /\ UNCHANGED <<params, credentialVars, gridVars, callVars, threadVars>>

\* lines 217-224: one iteration of the page loop, the sleep of line 224
\* included; a body without "data" raises KeyError and __get_data calls
\* itself with what it holds, before the sleep
get_data_page ==
    /\ pc = "page"
    /\ sent' = sent + 1
    /\ request' = [kind |-> "page", page |-> current_page,
                   url |-> PageUrl(rq_link, current_page)]
    /\ \E response \in PageResponses(current_page) :
         IF response.hasData
           THEN /\ raw_data' = AccumulatePage(raw_data, response.data)
                /\ default_raw_data' =
                       SharedDefault(default_raw_data,
                                     AccumulatePage(raw_data, response.data))
                /\ current_page' = current_page + 1
                /\ pc' = IF current_page + 1 <= num_pages THEN "page" ELSE "done"
                /\ slept' = TRUE
                /\ UNCHANGED <<num_pages, retries, rq_link>>
           ELSE /\ retries.page < MaxRetries
                /\ raw_data' = PageRetry(raw_data, current_page, num_pages).raw_data
                /\ current_page' =
                       PageRetry(raw_data, current_page, num_pages).current_page
                /\ num_pages' = PageRetry(raw_data, current_page, num_pages).num_pages
                /\ retries' = [retries EXCEPT !.page = @ + 1]
                /\ slept' = FALSE
                /\ rq_link' = <<>>
                /\ pc' = "entry"
                /\ UNCHANGED default_raw_data
    /\ UNCHANGED <<now, app, ret, access_token, authentication_header,
                   connection_cutoff, last_status, acquired_at, token_log, error>>
    /\ UNCHANGED <<params, credentialVars, gridVars, returned, threadVars>>

\* line 230: return raw_data to the getter; the arguments and locals of
\* the call are gone
get_data_return ==
    /\ pc = "done"
    /\ pc' = "idle"
    /\ params' = <<>>
    /\ rq_link' = <<>>
    /\ request' = NoRequest
    /\ returned' = raw_data
    /\ UNCHANGED <<now, app, ret, access_token, authentication_header,
                   connection_cutoff, last_status, acquired_at, token_log,
                   raw_data, current_page, num_pages, retries, sent, error>>
    /\ UNCHANGED <<slept, credentialVars, gridVars, default_raw_data, threadVars>>

\* dashboard line 17: with the client constructed, api.get_json_dict is
\* looked up; ERCOTAPI defines no such attribute, and AttributeError is not
\* caught by the handler of line 21
get_spp_df_body ==
    /\ pc = "idle"
    /\ app = "dashboard"
    /\ pc' = "error"
    /\ error' = "AttributeError"
    /\ UNCHANGED <<now, app, ret, access_token, authentication_header,
                   connection_cutoff, last_status, acquired_at, token_log,
                   raw_data, current_page, num_pages, retries, sent>>
    /\ UNCHANGED <<queryVars, credentialVars, gridVars, callVars, threadVars>>

\* dashboard lines 21-23: except KeyError: get_spp_df(date), which constructs
\* a new client (line 16)
get_spp_df_retry ==
    /\ pc = "error"
    /\ app = "dashboard"
    /\ error = "KeyError"
    /\ pc' = "start"
    /\ error' = ""
    /\ access_token' = 0
    /\ authentication_header' = Header(0, 0)
    /\ connection_cutoff' = 0
    /\ last_status' = 0
    /\ acquired_at' = 0
    /\ ret' = "ctor"
    /\ UNCHANGED <<now, app, token_log, raw_data, current_page, num_pages,
                   retries, sent>>
    /\ UNCHANGED <<queryVars, credentialVars, gridVars, callVars, threadVars>>

Next ==
    \/ Tick
    \/ ERCOTAPI_init
    \/ get_connection_status
    \/ set_api_connection
    \/ set_username
    \/ set_password
    \/ set_api_key
    \/ get_data_call
    \/ get_data_entry
    \/ get_data_discover
    \/ get_data_page
    \/ get_data_return
    \/ get_spp_df_body
    \/ get_spp_df_retry

Spec == Init /\ [][Next]_vars

(***************************************************************************)
(* The grid-normalizing getters.                                           *)
(*                                                                         *)
(* A DataFrame is a sequence of rows, a row a function from column names   *)
(* to values.  Dates are day ordinals.  A float cell is <<v>>, the         *)
(* missing-value marker nan is <<>>.                                       *)
(***************************************************************************)
HoursPerDay == 24
nan == <<>>
Float(v) == <<v>>
Intervals == <<0, 15, 30, 45>>

DigitValue(c) == (CHOOSE d \in 1..10 : Digits[d] = c) - 1

\* int(s) of a string of decimal digits
RECURSIVE ParseInt(_)
ParseInt(s) ==
    IF s = <<>> THEN 0
    ELSE 10 * ParseInt(SubSeq(s, 1, Len(s) - 1)) + DigitValue(s[Len(s)])

\* lines 282, 363: int(x[:-3]) of an hour-ending string "HH:00"
HourOfString(x) == ParseInt(SubSeq(x, 1, Len(x) - 3))

\* lines 285-286, 366-367, 669-670: for hour in range(1,25):
\*     raw_data[1] = raw_data[1].replace(hour, hour - 1)
\* as it acts on one value, pass after pass
\* mutant: the passes run from 24 down to 1
RECURSIVE ReplaceHoursDescending(_, _)
ReplaceHoursDescending(v, hour) ==
    IF hour > HoursPerDay THEN v
    ELSE ReplaceHoursDescending(IF v = HoursPerDay + 1 - hour
                                  THEN HoursPerDay - hour ELSE v,
                                hour + 1)

RECURSIVE ReplaceHours(_, _)
ReplaceHours(v, hour) ==
    IF hour > HoursPerDay THEN v
    ELSE ReplaceHours(IF v = hour THEN hour - 1 ELSE v, hour + 1)

RemapHE(v) == ReplaceHours(v, 1)

\* lines 672-675: replace(1,0), replace(2,15), replace(3,30), replace(4,45)
RECURSIVE ReplaceIntervals(_, _)
ReplaceIntervals(v, pass) ==
    IF pass > Len(Intervals) THEN v
    ELSE ReplaceIntervals(IF v = pass THEN Intervals[pass] ELSE v, pass + 1)

RemapInterval(v) == ReplaceIntervals(v, 1)

\* the columns of pd.DataFrame(list of lists): 0 .. widest record - 1
RawColumns(recs) ==
    {c \in 0..6 : \E k \in DOMAIN recs : c < Len(recs[k])}

\* lines 280-288 (get_dam_lmp), 361-369 (get_dam_spp): the frame with columns
\* Date, HE, Unit and the value after drop(4), the conversions and rename
DamFrame(recs) ==
    [k \in DOMAIN recs |->
        [Date |-> recs[k][1],
         HE |-> RemapHE(HourOfString(recs[k][2])),
         Unit |-> recs[k][3],
         val |-> Float(recs[k][4])]]

\* lines 665-682 (get_rtm_spp_lz), 767-784, 871-888: the rows of the wanted
\* settlement point type, with columns Date, HE, Interval, Unit and the value
RtmFrame(recs, type) ==
    LET OfType(r) == r[5] = type
        kept == SelectSeq(recs, OfType)
    IN [k \in DOMAIN kept |->
          [Date |-> kept[k][1],
           HE |-> RemapHE(kept[k][2]),
           Interval |-> RemapInterval(kept[k][3]),
           Unit |-> kept[k][4],
           val |-> Float(kept[k][6])]]

\* pd.date_range(from, to, freq="D")
DateRange(from, to) == [k \in 1..(IF to >= from THEN to - from + 1 ELSE 0) |-> from + k - 1]

\* lines 295-297: MultiIndex.from_product([date_range, range(24)]) as rows
DamGrid(dates) ==
    [k \in 1..(Len(dates) * HoursPerDay) |->
        [Date |-> dates[((k - 1) \div HoursPerDay) + 1],
         HE |-> (k - 1) % HoursPerDay]]

\* lines 689-691: from_product([date_range, range(24), [0, 15, 30, 45]])
RtmGrid(dates) ==
    [k \in 1..(Len(dates) * HoursPerDay * Len(Intervals)) |->
        [Date |-> dates[((k - 1) \div (HoursPerDay * Len(Intervals))) + 1],
         HE |-> ((k - 1) \div Len(Intervals)) % HoursPerDay,
         Interval |-> Intervals[((k - 1) % Len(Intervals)) + 1]]]

\* The positions of first occurrence among values[lo..hi], given the values
\* already seen; the range is halved to keep the evaluation shallow.
RECURSIVE FirstSeen(_, _, _, _)
FirstSeen(values, lo, hi, seen) ==
    IF lo > hi THEN [kept |-> <<>>, seen |-> seen]
    ELSE IF lo = hi
      THEN IF values[lo] \in seen
             THEN [kept |-> <<>>, seen |-> seen]
             ELSE [kept |-> <<lo>>, seen |-> seen \cup {values[lo]}]
      ELSE LET mid == (lo + hi) \div 2
               head == FirstSeen(values, lo, mid, seen)
               tail == FirstSeen(values, mid + 1, hi, head.seen)
           IN [kept |-> head.kept \o tail.kept, seen |-> tail.seen]

\* Series.unique(): the distinct values in order of first appearance
Unique(s) ==
    LET kept == FirstSeen(s, 1, Len(s), {}).kept
    IN [k \in DOMAIN kept |-> s[kept[k]]]

UnitsOf(frame) == Unique([k \in DOMAIN frame |-> frame[k].Unit])

\* lines 300-304: the rows of one unit, the value column named after it
UnitRows(frame, unit) ==
    LET IsUnit(r) == r.Unit = unit
        rows == SelectSeq(frame, IsUnit)
    IN [k \in DOMAIN rows |-> [c \in DOMAIN rows[k] \ {"Unit"} |-> rows[k][c]]]

\* the key of a row on the given columns
Key(row, on) == [c \in DOMAIN on |-> row[on[c]]]

\* lexicographic order of keys
RECURSIVE KeyLess(_, _, _)
KeyLess(a, b, c) ==
    /\ c <= Len(a)
    /\ \/ a[c] < b[c]
       \/ a[c] = b[c] /\ KeyLess(a, b, c + 1)

\* lines 308-315: the rows the loop appends for one date (hourly reports).
\* A row appended for one hour never matches the test of another hour, so
\* the rows are those of the hours without a row in temp, in hour order.
FillDateDam(temp, date) ==
    LET OnDate(r) == r.Date = date
        onDate == SelectSeq(temp, OnDate)
        hours == [h \in 1..HoursPerDay |-> h - 1]
        Missing(hour) == \A k \in DOMAIN onDate : onDate[k].HE # hour
        NanRow(hour) == [Date |-> date, HE |-> hour, val |-> nan]
    IN IF onDate # <<>>
         THEN IF Len(onDate) # HoursPerDay
                THEN LET gaps == SelectSeq(hours, Missing)
                     IN [k \in DOMAIN gaps |-> NanRow(gaps[k])]
                ELSE <<>>
         ELSE [k \in DOMAIN hours |-> NanRow(hours[k])]

\* lines 307-315: for date in date_range, on the growing temp_df
RECURSIVE GapFillDam(_, _, _)
GapFillDam(temp, dates, k) ==
    IF k > Len(dates) THEN temp
    ELSE GapFillDam(temp \o FillDateDam(temp, dates[k]), dates, k + 1)

\* mutant: duplicates kept
KeepAll(rows, on) == rows

\* mutant: keep="last"
KeepLast(rows, on) ==
    LET n == Len(rows)
        keys == [k \in DOMAIN rows |-> Key(rows[n + 1 - k], on)]
        kept == FirstSeen(keys, 1, n, {}).kept
        m == Len(kept)
    IN [k \in DOMAIN kept |-> rows[n + 1 - kept[m + 1 - k]]]

\* drop_duplicates(subset=on, keep="first")
DropDuplicates(rows, on) ==
    LET keys == [k \in DOMAIN rows |-> Key(rows[k], on)]
        kept == FirstSeen(keys, 1, Len(rows), {}).kept
    IN [k \in DOMAIN kept |-> rows[kept[k]]]

\* sort_values(by)
SortValues(rows, by) ==
    LET Before(a, b) == KeyLess(Key(a, by), Key(b, by), 1)
    IN SortSeq(rows, Before)

\* for each key among keys[lo..hi], the positions that hold it, ascending
RECURSIVE PositionsByKey(_, _, _)
PositionsByKey(keys, lo, hi) ==
    IF lo > hi THEN <<>>
    ELSE IF lo = hi THEN keys[lo] :> <<lo>>
    ELSE LET mid == (lo + hi) \div 2
             head == PositionsByKey(keys, lo, mid)
             tail == PositionsByKey(keys, mid + 1, hi)
         IN [key \in DOMAIN head \cup DOMAIN tail |->
               (IF key \in DOMAIN head THEN head[key] ELSE <<>>)
               \o (IF key \in DOMAIN tail THEN tail[key] ELSE <<>>)]

\* pd.merge(left, right, how="left", on=on): every left row in order, once
\* per right row of equal key (in right order), or once with nan when there
\* is none
RECURSIVE Joined(_, _, _, _, _, _, _)
Joined(left, right, byKey, on, unit, lo, hi) ==
    IF lo > hi THEN <<>>
    ELSE IF lo = hi
      THEN LET key == Key(left[lo], on)
               found == IF key \in DOMAIN byKey THEN byKey[key] ELSE <<>>
           IN IF found = <<>>
                THEN <<left[lo] @@ (unit :> nan)>>
                ELSE [m \in DOMAIN found |->
                        left[lo] @@ (unit :> right[found[m]].val)]
      ELSE LET mid == (lo + hi) \div 2
           IN Joined(left, right, byKey, on, unit, lo, mid)
              \o Joined(left, right, byKey, on, unit, mid + 1, hi)

\* mutant: how="inner"
MergeInner(left, right, on, unit) ==
    LET rightKeys == [k \in DOMAIN right |-> Key(right[k], on)]
        byKey == PositionsByKey(rightKeys, 1, Len(right))
        Matched(r) == Key(r, on) \in DOMAIN byKey
    IN Joined(SelectSeq(left, Matched), right, byKey, on, unit, 1,
              Len(SelectSeq(left, Matched)))

\* mutant: how="outer", the right rows without a left row come last
MergeOuter(left, right, on, unit) ==
    LET rightKeys == [k \in DOMAIN right |-> Key(right[k], on)]
        byKey == PositionsByKey(rightKeys, 1, Len(right))
        leftKeys == {Key(left[k], on) : k \in DOMAIN left}
        Unmatched(r) == Key(r, on) \notin leftKeys
        extra == SelectSeq(right, Unmatched)
        onCols == {on[c] : c \in DOMAIN on}
        cols == IF left = <<>> THEN onCols ELSE DOMAIN left[1]
    IN Joined(left, right, byKey, on, unit, 1, Len(left))
       \o [m \in DOMAIN extra |->
              [c \in cols |-> IF c \in onCols THEN extra[m][c] ELSE nan]
              @@ (unit :> extra[m].val)]

MergeLeft(left, right, on, unit) ==
    LET rightKeys == [k \in DOMAIN right |-> Key(right[k], on)]
        byKey == PositionsByKey(rightKeys, 1, Len(right))
    IN Joined(left, right, byKey, on, unit, 1, Len(left))

\* lines 300-318: temp_df of one unit after the gap fill and
\* drop_duplicates
DamSeries(frame, unit, dates) ==
    DropDuplicates(GapFillDam(UnitRows(frame, unit), dates, 1), <<"Date", "HE">>)

\* lines 299-328: the loop over raw_data["Unit"].unique()
RECURSIVE DamUnits(_, _, _, _, _)
DamUnits(formatted, frame, units, dates, k) ==
    IF k > Len(units) THEN formatted
    ELSE LET on == <<"Date", "HE">>
             deduped == DamSeries(frame, units[k], dates)
             sorted == SortValues(deduped, on)
         IN DamUnits(MergeLeft(formatted, sorted, on, units[k]),
                     frame, units, dates, k + 1)

\* lines 274-332 (get_dam_lmp), 355-413 (get_dam_spp) after __get_data
\* returned recs: the table, or the KeyError of drop(4, axis=1)
NormalizeDam(recs, from, to) ==
    IF 4 \notin RawColumns(recs)
      THEN [kind |-> "KeyError"]
      ELSE LET frame == DamFrame(recs)
               dates == DateRange(from, to)
               units == UnitsOf(frame)
           IN [kind |-> "table",
               index |-> <<"Date", "HE">>,
               columns |-> units,
               rows |-> DamUnits(DamGrid(dates), frame, units, dates, 1)]

\* lines 706-708, 715-717: for interval in [0, 15, 30, 45], append a nan row
\* where the hour has no row of that interval
FillIntervals(onHour, date, hour) ==
    LET Missing(interval) == \A k \in DOMAIN onHour : onHour[k].Interval # interval
        gaps == SelectSeq(Intervals, Missing)
    IN [k \in DOMAIN gaps |->
          [Date |-> date, HE |-> hour, Interval |-> gaps[k], val |-> nan]]

\* lines 704-708 and 710-717: the rows appended for one hour of a date that
\* has rows, in the branch taken when the date has exactly 24 rows
\* (exactly24) and in the other branch
FillHourRtm(onDate, date, hour, exactly24) ==
    LET OnHour(r) == r.HE = hour
        onHour == SelectSeq(onDate, OnHour)
        allFour == [k \in DOMAIN Intervals |->
                      [Date |-> date, HE |-> hour, Interval |-> Intervals[k],
                       val |-> nan]]
    IN IF exactly24
         THEN IF Len(onHour) # Len(Intervals)
                THEN FillIntervals(onHour, date, hour) ELSE <<>>
         ELSE IF Len(onHour) = 0 THEN allFour
              ELSE IF Len(onHour) # Len(Intervals)
                     THEN FillIntervals(onHour, date, hour) ELSE <<>>

RECURSIVE FillHoursRtm(_, _, _, _, _)
FillHoursRtm(onDate, date, lo, hi, exactly24) ==
    IF lo > hi THEN <<>>
    ELSE IF lo = hi THEN FillHourRtm(onDate, date, lo, exactly24)
    ELSE LET mid == (lo + hi) \div 2
         IN FillHoursRtm(onDate, date, lo, mid, exactly24)
            \o FillHoursRtm(onDate, date, mid + 1, hi, exactly24)

\* lines 702-721: the rows the loop appends for one date (sub-hourly
\* reports).  Rows appended for one hour never match the tests of another.
FillDateRtm(temp, date) ==
    LET OnDate(r) == r.Date = date
        onDate == SelectSeq(temp, OnDate)
    IN FillHoursRtm(onDate, date, 0, HoursPerDay - 1, Len(onDate) = HoursPerDay)

\* lines 701-721: for date in date_range, on the growing temp_df
RECURSIVE GapFillRtm(_, _, _)
GapFillRtm(temp, dates, k) ==
    IF k > Len(dates) THEN temp
    ELSE GapFillRtm(temp \o FillDateRtm(temp, dates[k]), dates, k + 1)

\* lines 694-724: temp_df of one unit after the gap fill and
\* drop_duplicates
RtmSeries(frame, unit, dates) ==
    DropDuplicates(GapFillRtm(UnitRows(frame, unit), dates, 1),
                   <<"Date", "HE", "Interval">>)

\* lines 693-734: the loop over raw_data["Unit"].unique()
RECURSIVE RtmUnits(_, _, _, _, _)
RtmUnits(formatted, frame, units, dates, k) ==
    IF k > Len(units) THEN formatted
    ELSE LET on == <<"Date", "HE", "Interval">>
             deduped == RtmSeries(frame, units[k], dates)
             sorted == SortValues(deduped, on)
         IN RtmUnits(MergeLeft(formatted, sorted, on, units[k]),
                     frame, units, dates, k + 1)

\* line 838: DataFrame.mean(axis=1) over the unit columns, nan skipped; the
\* mean of cells summing to s over n values is the fraction <<s, n>>
RECURSIVE SumCells(_, _, _)
SumCells(row, units, k) ==
    IF k > Len(units) THEN <<0, 0>>
    ELSE LET rest == SumCells(row, units, k + 1)
         IN IF row[units[k]] = nan THEN rest
            ELSE <<rest[1] + row[units[k]][1], rest[2] + 1>>

\* mutant: a missing value counts as zero
RowMeanZeroFill(row, units) ==
    IF units = <<>> THEN nan ELSE <<SumCells(row, units, 1)[1], Len(units)>>

\* line 838: mean(axis=1) skips nan; the mean is the pair <<sum, count>>
RowMean(row, units) ==
    LET total == SumCells(row, units, 1)
    IN IF total[2] = 0 THEN nan ELSE total

\* lines 659-738 (get_rtm_spp_lz), 761-842 (get_rtm_spp_hub), 865-944
\* (get_rtm_spp_rn) after __get_data returned recs: the table, or the
\* KeyError of raw_data[4]
NormalizeRtm(recs, from, to, type, average) ==
    IF 4 \notin RawColumns(recs)
      THEN [kind |-> "KeyError"]
      ELSE LET frame == RtmFrame(recs, type)
               dates == DateRange(from, to)
               units == UnitsOf(frame)
               merged == RtmUnits(RtmGrid(dates), frame, units, dates, 1)
           IN [kind |-> "table",
               index |-> <<"Date", "HE", "Interval">>,
               columns |-> IF average THEN Append(units, "HB_HUBAVG") ELSE units,
               rows |-> IF average
                          THEN [k \in DOMAIN merged |->
                                  merged[k] @@ ("HB_HUBAVG" :> RowMean(merged[k], units))]
                          ELSE merged]

(***************************************************************************)
(* SpecGrid: a getter is called for a date range, __get_data hands it the  *)
(* pages the API returned, and the getter normalizes them.                 *)
(***************************************************************************)
MaxGridPages == 2

HourlyGetters == {"get_dam_lmp", "get_dam_spp"}
SubHourlyGetters == {"get_rtm_spp_lz", "get_rtm_spp_hub", "get_rtm_spp_rn"}

\* the hour-ending strings the API sends, "01:00" .. "24:00"
HourEnding(h) ==
    <<Digits[(h \div 10) + 1], Digits[(h % 10) + 1], ":", "0", "0">>

\* a page of the hourly reports: one record <<deliveryDate, hourEnding,
\* name, price, DSTFlag>> for each hour label lo..hi
DamPage(unit, date, lo, hi, price) ==
    [k \in 1..(hi - lo + 1) |->
        <<date, HourEnding(lo + k - 1), unit, price, FALSE>>]

\* a page of the sub-hourly report: one record <<deliveryDate, deliveryHour,
\* deliveryInterval, settlementPoint, settlementPointType, price, DSTFlag>>
\* for each hour label lo..hi and interval label ilo..ihi
RtmPage(unit, type, date, lo, hi, ilo, ihi, price) ==
    [k \in 1..((hi - lo + 1) * (ihi - ilo + 1)) |->
        <<date, lo + ((k - 1) \div (ihi - ilo + 1)),
          ilo + ((k - 1) % (ihi - ilo + 1)), unit, type, price, FALSE>>]

\* a page of one record that lacks its last field
ShortDamPage(unit, date, hour, price) ==
    <<SubSeq(DamPage(unit, date, hour, hour, price)[1], 1, 4)>>

\* the pages the hourly reports may return: a full day, a day short of its
\* last hour, single hours, a date and hour labels outside the request, a
\* record of four fields
DamPages ==
    { DamPage("A", 1, 1, 24, 10),
      DamPage("A", 1, 1, 23, 20),
      DamPage("A", 1, 1, 1, 30),
      DamPage("B", 2, 24, 24, 10),
      DamPage("B", 3, 1, 2, 20),
      DamPage("A", 1, 25, 25, 20),
      DamPage("B", 1, 0, 0, 30),
      ShortDamPage("B", 1, 2, 40),
      <<>> }

\* the pages the sub-hourly report may return
RtmPages ==
    { RtmPage("HB_A", "HU", 1, 1, 24, 1, 4, 10),
      RtmPage("HB_A", "HU", 1, 1, 24, 1, 1, 20),
      RtmPage("HB_B", "HU", 1, 24, 24, 1, 3, 20),
      RtmPage("HB_B", "HU", 1, 24, 24, 1, 1, 30),
      RtmPage("LZ_A", "LZ", 2, 1, 1, 1, 4, 10),
      RtmPage("RN_A", "RN", 1, 2, 2, 4, 5, 30),
      <<>> }

RequestDates == 1..2

FetchIdle ==
    /\ now = 0
    /\ app = "script"
    /\ pc = "idle"
    /\ ret = "ctor"
    /\ access_token = 1
    /\ authentication_header = Header(1, 1)
    /\ connection_cutoff = TokenLookahead
    /\ last_status = StatusOK
    /\ acquired_at = 0
    /\ token_log = <<TRUE>>
    /\ raw_data = <<>>
    /\ current_page = 1
    /\ num_pages = 0
    /\ retries = [discovery |-> 0, page |-> 0]
    /\ sent = 0
    /\ error = ""
    /\ params = <<>>
    /\ rq_link = <<>>
    /\ request = NoRequest
    /\ slept = FALSE
    /\ username = 1
    /\ password = 1
    /\ api_key = 1
    /\ call = [name |-> "", reset |-> FALSE]
    /\ default_raw_data = <<>>
    /\ returned = <<>>

InitGrid ==
    /\ FetchIdle
    /\ ThreadsIdle
    /\ gpc = "collect"
    /\ records = <<>>
    /\ fetched = 0
    /\ deliveryDateFrom \in RequestDates
    /\ deliveryDateTo \in RequestDates
    /\ getter \in HourlyGetters \cup SubHourlyGetters
    /\ result = [kind |-> "none"]

\* line 221 within a getter's __get_data: one more page of an hourly report
receive_dam_page ==
    /\ gpc = "collect"
    /\ getter \in HourlyGetters
    /\ fetched < MaxGridPages
    /\ \E page \in DamPages : records' = AccumulatePage(records, page)
    /\ fetched' = fetched + 1
    /\ UNCHANGED <<gpc, deliveryDateFrom, deliveryDateTo, getter, result>>
    /\ UNCHANGED <<fetchVars, threadVars>>

\* line 221 within a getter's __get_data: one more page of the sub-hourly
\* report
receive_rtm_page ==
    /\ gpc = "collect"
    /\ getter \in SubHourlyGetters
    /\ fetched < MaxGridPages
    /\ \E page \in RtmPages : records' = AccumulatePage(records, page)
    /\ fetched' = fetched + 1
    /\ UNCHANGED <<gpc, deliveryDateFrom, deliveryDateTo, getter, result>>
    /\ UNCHANGED <<fetchVars, threadVars>>

Returns(table) ==
    /\ result' = table
    /\ gpc' = "returned"
    /\ UNCHANGED <<records, fetched, deliveryDateFrom, deliveryDateTo, getter>>
    /\ UNCHANGED <<fetchVars, threadVars>>

\* lines 280-332
get_dam_lmp ==
    /\ gpc = "collect"
    /\ getter = "get_dam_lmp"
    /\ Returns(NormalizeDam(records, deliveryDateFrom, deliveryDateTo))

\* lines 361-413
get_dam_spp ==
    /\ gpc = "collect"
    /\ getter = "get_dam_spp"
    /\ Returns(NormalizeDam(records, deliveryDateFrom, deliveryDateTo))

\* lines 665-738
get_rtm_spp_lz ==
    /\ gpc = "collect"
    /\ getter = "get_rtm_spp_lz"
    /\ Returns(NormalizeRtm(records, deliveryDateFrom, deliveryDateTo, "LZ", FALSE))

\* lines 767-842
get_rtm_spp_hub ==
    /\ gpc = "collect"
    /\ getter = "get_rtm_spp_hub"
    /\ Returns(NormalizeRtm(records, deliveryDateFrom, deliveryDateTo, "HU", TRUE))

\* lines 871-944
get_rtm_spp_rn ==
    /\ gpc = "collect"
    /\ getter = "get_rtm_spp_rn"
    /\ Returns(NormalizeRtm(records, deliveryDateFrom, deliveryDateTo, "RN", FALSE))

NextGrid ==
    \/ receive_dam_page
    \/ receive_rtm_page
    \/ get_dam_lmp
    \/ get_dam_spp
    \/ get_rtm_spp_lz
    \/ get_rtm_spp_hub
    \/ get_rtm_spp_rn

SpecGrid == InitGrid /\ [][NextGrid]_vars

(***************************************************************************)
(* Properties of the grid-normalizing getters (checked under SpecGrid).    *)
(***************************************************************************)
Returned == gpc = "returned"
Hourly == getter \in HourlyGetters

\* the frame the unit loop reads (line 299, line 693) and its key columns
LoopFrame ==
    IF Hourly THEN DamFrame(records)
    ELSE RtmFrame(records, CASE getter = "get_rtm_spp_lz" -> "LZ"
                             [] getter = "get_rtm_spp_hub" -> "HU"
                             [] OTHER -> "RN")
KeyColumns == IF Hourly THEN <<"Date", "HE">> ELSE <<"Date", "HE", "Interval">>

\* the canonical slots of the requested range
CanonicalSlots ==
    IF Hourly
      THEN {<<d, h>> : d \in deliveryDateFrom..deliveryDateTo, h \in 0..23}
      ELSE {<<d, h, i>> : d \in deliveryDateFrom..deliveryDateTo, h \in 0..23,
                          i \in {0, 15, 30, 45}}

\* every record has the field count of the report: 5 for the hourly
\* reports, 7 for the sub-hourly one
WellShaped ==
    \A k \in DOMAIN records : Len(records[k]) = (IF Hourly THEN 5 ELSE 7)

\* C1: for a range with from <= to and a non-empty set of records of the
\* report, the getter returns a table of exactly days_in_range x
\* slots_per_day rows (24 per day for the hourly getters, 96 for the
\* sub-hourly ones).
C1_RowCount ==
    (Returned /\ records # <<>> /\ WellShaped
              /\ deliveryDateFrom <= deliveryDateTo) =>
        /\ result.kind = "table"
        /\ Len(result.rows) =
              (deliveryDateTo - deliveryDateFrom + 1) * (IF Hourly THEN 24 ELSE 96)

\* a two-day sub-hourly table built from records with gaps and with two
\* different readings for one (entity, slot)
C1_Witness ==
    /\ Returned
    /\ getter = "get_rtm_spp_hub"
    /\ deliveryDateFrom = 1 /\ deliveryDateTo = 2
    /\ result.kind = "table"
    /\ Len(result.rows) = 192
    /\ \E i, j \in DOMAIN records :
          /\ i < j
          /\ SubSeq(records[i], 1, 5) = SubSeq(records[j], 1, 5)
          /\ records[i][6] # records[j][6]

\* C2 as claimed: a getter handed an empty record set returns a table with
\* the canonical row count and no entity column.
C2_EmptyFetchNormalizes ==
    (Returned /\ records = <<>>) =>
        /\ result.kind = "table"
        /\ Len(result.rows) = Cardinality(CanonicalSlots)
        /\ \A c \in DOMAIN result.columns : result.columns[c] = "HB_HUBAVG"

\* C3: in a returned table, the rows are the canonical slots of the range
\* in strictly ascending (date, slot) order, every entity of the frame has a
\* column, and its cell at a slot is one of the readings the frame holds for
\* that (entity, slot), or the missing-value marker exactly when the frame
\* holds none.
C3_OneCellPerSlot ==
    (Returned /\ result.kind = "table") =>
        LET rows == result.rows
            keys == [k \in DOMAIN rows |-> Key(rows[k], KeyColumns)]
            frame == LoopFrame
            entities == {frame[i].Unit : i \in DOMAIN frame}
            readings == {<<frame[i].Unit, Key(frame[i], KeyColumns), frame[i].val>> :
                            i \in DOMAIN frame}
            supplied == {<<x[1], x[2]>> : x \in readings}
        IN /\ {keys[k] : k \in DOMAIN rows} = CanonicalSlots
           /\ \A k \in DOMAIN rows : k > 1 => KeyLess(keys[k - 1], keys[k], 1)
           /\ entities \subseteq {result.columns[c] : c \in DOMAIN result.columns}
           /\ \A u \in entities : \A k \in DOMAIN rows :
                IF <<u, keys[k]>> \in supplied
                  THEN <<u, keys[k], rows[k][u]>> \in readings
                  ELSE rows[k][u] = nan

\* the scenario of the claim: one day, an entity with readings for hours
\* 0..22 only; 24 rows come back and hour 23 is missing
C3_Witness ==
    /\ Returned
    /\ getter = "get_dam_lmp"
    /\ deliveryDateFrom = 1 /\ deliveryDateTo = 1
    /\ records = DamPage("A", 1, 1, 23, 20)
    /\ Len(result.rows) = 24
    /\ result.rows[24].A = nan
    /\ \A k \in 1..23 : result.rows[k].A = <<20>> /\ result.rows[k].HE = k - 1

\* C4: when the frame holds several rows for one (entity, slot), every cell
\* of that entity at that slot holds the value of the first of them in
\* record-set order, never a later one and never the missing-value marker.
C4_FirstOccurrenceWins ==
    (Returned /\ result.kind = "table") =>
        LET rows == result.rows
            frame == LoopFrame
            Same(i, j) == /\ frame[i].Unit = frame[j].Unit
                          /\ Key(frame[i], KeyColumns) = Key(frame[j], KeyColumns)
            first == {i \in DOMAIN frame :
                        /\ \A j \in 1..(i - 1) : ~Same(i, j)
                        /\ \E j \in (i + 1)..Len(frame) : Same(i, j)}
        IN \A i \in first : \A k \in DOMAIN rows :
              Key(rows[k], KeyColumns) = Key(frame[i], KeyColumns) =>
                  rows[k][frame[i].Unit] = frame[i].val

\* two readings 20 then 10 (record-set order) for entity A on day 1: the
\* table shows 20
C4_Witness ==
    /\ Returned
    /\ getter = "get_dam_spp"
    /\ deliveryDateFrom = 1 /\ deliveryDateTo = 1
    /\ records = DamPage("A", 1, 1, 23, 20) \o DamPage("A", 1, 1, 24, 10)
    /\ result.rows[1].A = <<20>>
    /\ result.rows[24].A = <<10>>

(***************************************************************************)
(* Properties of the paged fetch and of the token (checked under Spec).    *)
(***************************************************************************)
\* raw holds every record of every page 1..n once, and nothing else
AllPagesOnce(raw, n) ==
    /\ Len(raw) = n * RecordsPerPage
    /\ \A p \in 1..n : \A i \in 1..RecordsPerPage :
          Cardinality({k \in DOMAIN raw : raw[k] = <<p, i>>}) = 1

\* C5: when __get_data is about to return for a report of num_pages pages,
\* its record set holds the records of each page 1..num_pages exactly once:
\* no page missing, none twice, and nothing taken from the discovery body.
C5_EveryPageOnce == pc = "done" => AllPagesOnce(raw_data, num_pages)

C5_Witness ==
    /\ pc = "done"
    /\ num_pages >= 2
    /\ Len(raw_data) = num_pages * RecordsPerPage

\* C6: a page request that raises KeyError re-enters __get_data at the same
\* page with the accumulated pages kept and the page count unchanged; the
\* page requested never moves backwards within a fetch; and a fetch that
\* returns after such failures still holds every page exactly once.
C6_RetryResumesAtFailedPage ==
    /\ [][(pc = "page" /\ pc' = "entry") =>
             /\ raw_data' = raw_data
             /\ current_page' = current_page
             /\ num_pages' = num_pages]_vars
    /\ [][(num_pages > 0 /\ num_pages' > 0) => current_page' >= current_page]_vars
    /\ []((pc = "done" /\ retries.page > 0) => AllPagesOnce(raw_data, num_pages))

C6_Witness ==
    /\ pc = "done"
    /\ retries.page >= 2
    /\ num_pages = 3
    /\ AllPagesOnce(raw_data, num_pages)

\* C7: the step that leaves the entry of __get_data (first call or recursive
\* re-entry) performs a credential exchange exactly when the clock has
\* reached the cutoff, and sends no report request; a report request is
\* only ever reached through that entry check.
C7_RefreshAtEntry ==
    /\ [][(pc = "entry" /\ pc' # "entry") =>
             /\ sent' = sent
             /\ IF now >= connection_cutoff
                  THEN Len(token_log') = Len(token_log) + 1
                  ELSE token_log' = token_log /\ pc' \in {"discover", "page", "done"}]_vars
    /\ [][(pc' \in {"discover", "page"} /\ pc \notin {"discover", "page"}) =>
             \/ pc = "entry" /\ now < connection_cutoff
             \/ pc = "probe" /\ ret = "fetch"]_vars
    /\ [][sent' > sent => pc \in {"discover", "page"}]_vars

C7_Witness ==
    /\ pc = "probe"
    /\ ret = "fetch"
    /\ retries.page > 0
    /\ sent > 0

\* C8 as claimed: after a successful token acquisition the expiry equals
\* the time of that acquisition plus 50 minutes.
C8_ExpiryIsAcquisitionPlus50 ==
    (access_token # 0 /\ pc # "probe") =>
        connection_cutoff = acquired_at + TokenLookahead

\* C8 as amended: the connection probe that follows a successful token
\* acquisition sets the expiry to the time the probe returned plus 50
\* minutes when its status is 200, and leaves the expiry as it was otherwise
\* (after construction: the construction time).
C8_ExpiryFollowsProbe ==
    /\ [][(pc = "probe" /\ pc' # "probe") =>
             connection_cutoff' = IF last_status' = StatusOK
                                    THEN now + TokenLookahead
                                    ELSE connection_cutoff]_vars
    /\ [][connection_cutoff' # connection_cutoff =>
             pc \in {"start", "probe", "error"}]_vars

C8_Witness ==
    /\ pc = "idle"
    /\ access_token > 1
    /\ last_status = StatusOK
    /\ connection_cutoff = now + TokenLookahead
    /\ acquired_at < now

\* C9 as claimed: a credential exchange that fails (no id_token) is never
\* followed by another credential exchange.
C9_NoExchangeAfterFailure ==
    \A i \in 1..Len(token_log) : ~token_log[i] => i = Len(token_log)

\* C10 as claimed: within one fetch the discovery step is re-attempted at
\* most once before the fetch gives up.
C10_DiscoveryRetriedOnce == retries.discovery <= 1

(***************************************************************************)
(* Properties of the request query string (checked under Spec).            *)
(***************************************************************************)
\* the parameters that are not None, in the mapping's order
PresentParams(ps) ==
    LET IsSet(prm) == prm.value # None
    IN SelectSeq(ps, IsSet)

\* name=value pairs joined by "&"
RECURSIVE JoinPairs(_)
JoinPairs(ps) ==
    IF ps = <<>> THEN <<>>
    ELSE Head(ps).name \o <<"=">> \o Head(ps).value[1]
         \o (IF Len(ps) > 1 THEN <<"&">> \o JoinPairs(Tail(ps)) ELSE <<>>)

\* C11: the discovery request is the link followed by exactly the
\* parameters whose value is not None (an empty string included), in the
\* mapping's order, as name=value, and no page parameter; the request of
\* page k is the same followed by page=k.
C11_QueryString ==
    /\ request.kind = "discovery" =>
          request.url = Link \o <<"?">> \o JoinPairs(PresentParams(params))
    /\ request.kind = "page" =>
          request.url =
              Link \o <<"?">>
              \o JoinPairs(PresentParams(params)
                           \o <<[name |-> <<"page">>,
                                 value |-> Str(StrOfInt(request.page))]>>)

\* a page request built from a mapping with a None and an empty-string value
C11_Witness ==
    /\ request.kind = "page"
    /\ request.page = 2
    /\ params[1].value = None
    /\ params[2].value = Str(<<>>)
    /\ request.url = Link \o <<"?", "settlementPoint", "=", "&", "size", "=", "9",
                               "&", "page", "=", "2">>

(***************************************************************************)
(* Further properties of the grid-normalizing getters (checked under       *)
(* SpecGrid).                                                              *)
(***************************************************************************)
\* C12 as claimed: with deliveryDateFrom later than deliveryDateTo a getter
\* returns a table of zero rows, whatever the record set.
C12_EmptyRangeReturnsEmptyTable ==
    (Returned /\ deliveryDateFrom > deliveryDateTo) =>
        /\ result.kind = "table"
        /\ Len(result.rows) = 0

\* the entity columns of a returned table
EntityColumns ==
    {result.columns[c] : c \in DOMAIN result.columns} \ {"HB_HUBAVG"}

\* the sum of a row's cells over a set of entity columns
RECURSIVE CellSum(_, _)
CellSum(row, entities) ==
    IF entities = {} THEN 0
    ELSE LET e == CHOOSE x \in entities : TRUE
         IN row[e][1] + CellSum(row, entities \ {e})

\* C13: in the table get_rtm_spp_hub returns, HB_HUBAVG of a row is the sum
\* of the row's non-missing entity values over their number, and is
\* missing exactly when the row has no non-missing entity value.
C13_HubAverageSkipsMissing ==
    (Returned /\ getter = "get_rtm_spp_hub" /\ result.kind = "table") =>
        \A k \in DOMAIN result.rows :
            LET row == result.rows[k]
                valued == {e \in EntityColumns : row[e] # nan}
            IN IF valued = {}
                 THEN row.HB_HUBAVG = nan
                 ELSE row.HB_HUBAVG = <<CellSum(row, valued), Cardinality(valued)>>

\* HB_A = 10 and HB_B missing give 10; HB_A = 10 and HB_B = 20 give 30 / 2
C13_Witness ==
    /\ Returned
    /\ getter = "get_rtm_spp_hub"
    /\ result.kind = "table"
    /\ EntityColumns = {"HB_A", "HB_B"}
    /\ \E k \in DOMAIN result.rows :
          /\ result.rows[k].HB_A = <<10>>
          /\ result.rows[k].HB_B = nan
          /\ result.rows[k].HB_HUBAVG = <<10, 1>>
    /\ \E k \in DOMAIN result.rows :
          /\ result.rows[k].HB_A = <<10>>
          /\ result.rows[k].HB_B = <<20>>
          /\ result.rows[k].HB_HUBAVG = <<30, 2>>

\* C14 as claimed: a record set holding a record whose field count is not
\* that of the report (5 for the hourly reports, 7 for the sub-hourly one)
\* never yields a table.
C14_MisshapedRecordsRejected ==
    (Returned /\ ~WellShaped) => result.kind # "table"

\* C20: in a returned table an entity has a value at slot (d, h-1) for every
\* record of it with date d and hour label h in 1..24 (and at interval
\* 15*(i-1) for interval label i in 1..4), and has a value at no other slot
\* of a date whose labels are all in that range: no label is shifted twice
\* and no two labels share a slot.
C20_SlotRemap ==
    (Returned /\ result.kind = "table") =>
        LET days == deliveryDateFrom..deliveryDateTo
            type == CASE getter = "get_rtm_spp_lz" -> "LZ"
                      [] getter = "get_rtm_spp_hub" -> "HU"
                      [] OTHER -> "RN"
            raw == IF Hourly
                     THEN {<<records[k][3], records[k][1],
                             HourOfString(records[k][2])>> : k \in DOMAIN records}
                     ELSE {<<records[k][4], records[k][1], records[k][2],
                             records[k][3]>> :
                              k \in {j \in DOMAIN records : records[j][5] = type}}
            InRange(x) == /\ x[3] \in 1..24
                          /\ Hourly \/ x[4] \in 1..4
            Slot(x) == IF Hourly THEN <<x[1], <<x[2], x[3] - 1>>>>
                       ELSE <<x[1], <<x[2], x[3] - 1, 15 * (x[4] - 1)>>>>
            expected == {Slot(x) : x \in {y \in raw : InRange(y) /\ y[2] \in days}}
            odd == {<<x[1], x[2]>> : x \in {y \in raw : ~InRange(y)}}
            valued == UNION {{<<e, Key(result.rows[k], KeyColumns)>> :
                                 e \in {c \in EntityColumns : result.rows[k][c] # nan}} :
                             k \in DOMAIN result.rows}
        IN /\ expected \subseteq valued
           /\ \A v \in valued : v \in expected \/ <<v[1], v[2][1]>> \in odd

\* a day of hour labels 1..24 fills the 24 slots 0..23
C20_Witness ==
    /\ Returned
    /\ getter = "get_dam_lmp"
    /\ deliveryDateFrom = 1 /\ deliveryDateTo = 1
    /\ records = DamPage("A", 1, 1, 24, 10)
    /\ \A k \in 1..24 : result.rows[k].HE = k - 1 /\ result.rows[k].A = <<10>>

(***************************************************************************)
(* Properties of the credential setters (checked under Spec).              *)
(***************************************************************************)
\* C15: a setter called with reset_connection = False changes nothing but
\* the credential it names: the access token, the authentication header and
\* the cutoff stay as they are and neither a credential exchange nor a probe
\* nor a report request is made; so a setter refreshes the token only when
\* reset_connection = True.
C15_SettersKeepConnection ==
    [][(pc = "idle" /\ call'.name \in SetterNames /\ ~call'.reset) =>
          /\ pc' = "idle"
          /\ UNCHANGED <<access_token, authentication_header, connection_cutoff,
                         acquired_at, token_log, last_status, sent, request>>
          /\ call'.name = "set_username" => UNCHANGED <<password, api_key>>
          /\ call'.name = "set_password" => UNCHANGED <<username, api_key>>
          /\ call'.name = "set_api_key" => UNCHANGED <<username, password>>]_vars

\* set_api_key(2) without a reset: the new key is stored, the header still
\* carries the key and the token of the construction
C15_Witness ==
    /\ pc = "idle"
    /\ call = [name |-> "set_api_key", reset |-> FALSE]
    /\ api_key = 2
    /\ authentication_header = Header(1, 1)
    /\ token_log = <<TRUE>>

(***************************************************************************)
(* Further properties of the token and of the paged fetch (checked under   *)
(* Spec).                                                                  *)
(***************************************************************************)
\* C16 as claimed: once a connection probe has returned a status other than
\* 200, the client code has been left with an error.
C16_RejectionSurfaces ==
    last_status \notin {0, StatusOK} => pc = "error"

\* C17 as claimed: every report request (discovery or page) is sent at a
\* time before the connection cutoff.
C17_NoRequestPastCutoff ==
    [][sent' > sent => now < connection_cutoff]_vars

\* C18 as claimed: every report request of a fetch but the first is sent
\* after a sleep that followed the request before it.
C18_DelayBetweenRequests ==
    [][(sent' > sent /\ sent > 0) => slept]_vars

\* C19 as claimed: the record set __get_data returns lists the records of
\* page i before those of page j for i < j, and the records of one page in
\* their order within the page.
C19_RecordsInFetchOrder ==
    pc = "done" =>
        \A i, j \in DOMAIN raw_data :
            i < j => \/ raw_data[i][1] < raw_data[j][1]
                     \/ raw_data[i][1] = raw_data[j][1] /\ raw_data[i][2] < raw_data[j][2]

\* C23: within one fetch the page count, once learned, is not changed and
\* no further discovery request is sent; the next page to request never
\* decreases; and at every entry of __get_data, recursive re-entries
\* included, the accumulated record set holds exactly the records of the
\* pages below the next page to request.
C23_RetryKeepsProgress ==
    /\ [][pc # "idle" =>
            /\ num_pages # 0 => num_pages' = num_pages
            /\ (sent' > sent /\ request'.kind = "discovery") => num_pages = 0
            /\ current_page' >= current_page]_vars
    /\ [](pc = "entry" => AllPagesOnce(raw_data, current_page - 1))

C23_Witness ==
    /\ pc = "entry"
    /\ retries.page = 2
    /\ num_pages = 3
    /\ current_page = 3
    /\ Len(raw_data) = 2 * RecordsPerPage

\* the cutoff is written by the constructor, and after that only by a
\* connection probe that returned 200
CutoffWrittenByGoodProbe ==
    [][connection_cutoff' # connection_cutoff =>
          \/ pc = "start"
          \/ pc = "error" /\ pc' = "start"
          \/ /\ pc = "probe"
             /\ last_status' = StatusOK
             /\ connection_cutoff' = now + TokenLookahead]_vars

\* C24 as claimed: the cutoff is advanced only by a probe that returned 200,
\* and as long as the last probe did not return 200 every step that leaves
\* the entry of __get_data, recursive re-entries included, performs a
\* credential exchange.
C24_FailedProbeForcesExchange ==
    /\ CutoffWrittenByGoodProbe
    /\ [][(pc = "entry" /\ pc' # "entry" /\ last_status # StatusOK) =>
             Len(token_log') = Len(token_log) + 1]_vars

\* C24 as amended: the cutoff is advanced only by a probe that returned 200,
\* and as long as the last probe was the constructor's or that of a refresh
\* made at the entry of __get_data and did not return 200, every step that
\* leaves the entry of __get_data, recursive re-entries included, performs a
\* credential exchange.
C24_FailedRefreshForcesExchange ==
    /\ CutoffWrittenByGoodProbe
    /\ [][(pc = "entry" /\ pc' # "entry" /\ last_status # StatusOK
              /\ ret \in {"ctor", "fetch"}) =>
             Len(token_log') = Len(token_log) + 1]_vars

C24_Witness ==
    /\ pc = "probe"
    /\ ret = "fetch"
    /\ last_status # StatusOK
    /\ retries.page = 1
    /\ Len(token_log) = 3
    /\ connection_cutoff = 0
    /\ now > 0

\* C25: every call of __get_data made by a getter, and every re-entry after
\* a failed discovery, starts from an empty accumulator: while the page
\* count is unknown the accumulator is empty, the default object stays
\* empty however many fetches ran, and what a fetch is about to return
\* holds the records of its own pages, once each, and nothing else.
C25_FetchesAreIndependent ==
    /\ default_raw_data = <<>>
    /\ (pc \in {"entry", "discover"} /\ num_pages = 0) => raw_data = <<>>
    /\ pc = "done" => AllPagesOnce(raw_data, num_pages)

C25_Witness ==
    /\ pc = "done"
    /\ returned # <<>>
    /\ Len(returned) = 3 * RecordsPerPage
    /\ num_pages = 1
    /\ Len(raw_data) = RecordsPerPage
    /\ retries.discovery > 0

\* C26: the header always carries the token acquired last; it is rebuilt
\* only by a successful credential exchange (construction or
\* set_api_connection), from the new token and the API key the object holds
\* at that moment; set_api_key without reset_connection stores the key and
\* leaves the header, so requests keep the previous key until a refresh.
C26_HeaderFollowsRefresh ==
    /\ [](authentication_header.authorization = access_token)
    /\ [][authentication_header' # authentication_header =>
             \/ pc = "error" /\ pc' = "start"
             \/ /\ Len(token_log') = Len(token_log) + 1
                /\ token_log'[Len(token_log')]
                /\ authentication_header' = Header(Len(token_log'), api_key')]_vars
    /\ [][(api_key' # api_key /\ ~call'.reset) =>
             authentication_header' = authentication_header]_vars

C26_Witness ==
    /\ pc = "idle"
    /\ call = [name |-> "set_api_key", reset |-> FALSE]
    /\ api_key = 2
    /\ authentication_header = Header(2, 1)
    /\ access_token = 2

\* C27: a re-entry of __get_data after a failed page request that finds the
\* cutoff passed performs a credential exchange and sends nothing; the
\* refresh leaves the accumulated records, the next page and the page count
\* as they were; the request that follows a failed page request asks for
\* the same page; and no record accumulated during a fetch is lost later in
\* that fetch.
C27_RefreshDuringFetchKeepsPages ==
    /\ [][(pc = "entry" /\ pc' # "entry" /\ retries.page > 0
              /\ now >= connection_cutoff) =>
             /\ Len(token_log') = Len(token_log) + 1
             /\ sent' = sent
             /\ <<raw_data, current_page, num_pages>>' =
                    <<raw_data, current_page, num_pages>>]_vars
    /\ [][(pc = "probe" /\ ret = "fetch") =>
             /\ sent' = sent
             /\ <<raw_data, current_page, num_pages>>' =
                    <<raw_data, current_page, num_pages>>]_vars
    /\ [][(sent' > sent /\ request.kind = "page" /\ ~slept) =>
             request' = request]_vars
    /\ [][(pc # "idle" /\ num_pages # 0) =>
             \A k \in DOMAIN raw_data :
                 \E j \in DOMAIN raw_data' : raw_data'[j] = raw_data[k]]_vars

C27_Witness ==
    /\ pc = "probe"
    /\ ret = "fetch"
    /\ retries = [discovery |-> 0, page |-> 1]
    /\ Len(token_log) = 2
    /\ sent = 3
    /\ current_page = 2
    /\ num_pages >= 2
    /\ raw_data = PageData(1)
    /\ request.page = 2

(***************************************************************************)
(* Properties of the per-entity series and of records outside the grid     *)
(* (checked under SpecGrid).                                               *)
(***************************************************************************)
\* the per-entity series of the running getter: temp_df after the gap fill
\* and drop_duplicates, before the merge
Series(entity) ==
    IF Hourly
      THEN DamSeries(LoopFrame, entity, DateRange(deliveryDateFrom, deliveryDateTo))
      ELSE RtmSeries(LoopFrame, entity, DateRange(deliveryDateFrom, deliveryDateTo))

\* C21 as claimed: for an entity whose rows all lie on canonical slots of
\* the range, the series after the gap fill and the duplicate removal has
\* exactly one pair for every canonical slot.
C21_SeriesCoversEverySlot ==
    (Returned /\ result.kind = "table") =>
        LET frame == LoopFrame
            inside == {e \in {frame[i].Unit : i \in DOMAIN frame} :
                          \A i \in DOMAIN frame :
                              frame[i].Unit = e =>
                                  Key(frame[i], KeyColumns) \in CanonicalSlots}
        IN \A e \in inside :
              LET series == Series(e)
              IN /\ Len(series) = Cardinality(CanonicalSlots)
                 /\ {Key(series[k], KeyColumns) : k \in DOMAIN series} = CanonicalSlots

\* C28: in a returned table the rows are exactly the canonical slots, so a
\* record whose key, after the remap of its labels, is no canonical slot of
\* the range adds no row; every cell is decided by the records on canonical
\* slots alone (the first of them for that entity and slot, the
\* missing-value marker when there is none); and an entity with records
\* only off the grid has a column of missing-value markers.
C28_OffGridRecordsIgnored ==
    (Returned /\ result.kind = "table") =>
        LET rows == result.rows
            frame == LoopFrame
            inside == {i \in DOMAIN frame :
                          Key(frame[i], KeyColumns) \in CanonicalSlots}
            entities == {frame[i].Unit : i \in DOMAIN frame}
            Hits(e, key) == {i \in inside : /\ frame[i].Unit = e
                                            /\ Key(frame[i], KeyColumns) = key}
            First(hits) == CHOOSE i \in hits : \A j \in hits : i <= j
        IN /\ Len(rows) = Cardinality(CanonicalSlots)
           /\ \A k \in DOMAIN rows : Key(rows[k], KeyColumns) \in CanonicalSlots
           /\ entities \subseteq EntityColumns
           /\ \A e \in entities : \A k \in DOMAIN rows :
                LET hits == Hits(e, Key(rows[k], KeyColumns))
                IN rows[k][e] = IF hits = {} THEN nan ELSE frame[First(hits)].val

\* one day requested; entity A has a full day, entity B only records of a
\* day after the range: 24 rows, A valued everywhere, B missing everywhere
C28_Witness ==
    /\ Returned
    /\ getter = "get_dam_spp"
    /\ deliveryDateFrom = 1 /\ deliveryDateTo = 1
    /\ Len(records) = 26
    /\ result.kind = "table"
    /\ EntityColumns = {"A", "B"}
    /\ Len(result.rows) = 24
    /\ \A k \in DOMAIN result.rows :
          result.rows[k].A = <<10>> /\ result.rows[k].B = nan

(***************************************************************************)
(* SpecThreads: two threads call a getter on one constructed client.  Each *)
(* statement of the entry of __get_data, of set_api_connection and of      *)
(* get_connection_status is one step; the client holds no lock, so the     *)
(* steps of the threads interleave freely.                                 *)
(***************************************************************************)
InitThreads ==
    /\ FetchIdle
    /\ GridIdle
    /\ ThreadsIdle

ThreadFrame ==
    UNCHANGED <<app, pc, ret, raw_data, current_page, num_pages, retries, sent,
                error, queryVars, credentialVars, callVars, gridVars>>

\* line 170: the thread's getter calls __get_data
thread_call(t) ==
    /\ threads[t].pc = "none"
    /\ threads' = [threads EXCEPT ![t].pc = "entry"]
    /\ UNCHANGED <<now, access_token, authentication_header, connection_cutoff,
                   last_status, acquired_at, token_log>>
    /\ ThreadFrame

\* line 191: if dt.datetime.now() >= self.__connection_cutoff:
thread_entry(t) ==
    /\ threads[t].pc = "entry"
    /\ threads' = [threads EXCEPT ![t].pc = IF TokenExpired THEN "post"
                                                          ELSE "request",
                                  ![t].seen_cutoff = connection_cutoff]
    /\ UNCHANGED <<now, access_token, authentication_header, connection_cutoff,
                   last_status, acquired_at, token_log>>
    /\ ThreadFrame

\* line 1221: self.__access_token = self.__get_access_token()
thread_post(t) ==
    /\ threads[t].pc = "post"
    /\ Len(token_log) < MaxExchanges
    /\ \E id_token \in BOOLEAN :
         /\ token_log' = Append(token_log, id_token)
         /\ IF id_token
              THEN /\ access_token' = Len(token_log) + 1
                   /\ acquired_at' = now
                   /\ threads' = [threads EXCEPT ![t].pc = "header",
                                                 ![t].exchanged = TRUE]
              ELSE /\ threads' = [threads EXCEPT ![t].pc = "error",
                                                 ![t].exchanged = TRUE]
                   /\ UNCHANGED <<access_token, acquired_at>>
    /\ UNCHANGED <<now, authentication_header, connection_cutoff, last_status>>
    /\ ThreadFrame

\* line 1222: self.__authentication_header = {...}
thread_header(t) ==
    /\ threads[t].pc = "header"
    /\ authentication_header' = Header(access_token, api_key)
    /\ threads' = [threads EXCEPT ![t].pc = "probe"]
    /\ UNCHANGED <<now, access_token, connection_cutoff, last_status,
                   acquired_at, token_log>>
    /\ ThreadFrame

\* lines 1225, 240-251: the connection probe and the cutoff it sets
thread_probe(t) ==
    /\ threads[t].pc = "probe"
    /\ \E status \in ProbeStatuses :
         /\ last_status' = status
         /\ connection_cutoff' = CutoffAfterProbe(status)
    /\ threads' = [threads EXCEPT ![t].pc = "request"]
    /\ UNCHANGED <<now, access_token, authentication_header, acquired_at,
                   token_log>>
    /\ ThreadFrame

\* line 207: the thread's first report request, sent with the header the
\* client holds at that moment
thread_request(t) ==
    /\ threads[t].pc = "request"
    /\ threads' = [threads EXCEPT ![t].pc = "done"]
    /\ UNCHANGED <<now, access_token, authentication_header, connection_cutoff,
                   last_status, acquired_at, token_log>>
    /\ ThreadFrame

NextThreads ==
    \/ Tick
    \/ \E t \in Threads : thread_call(t)
    \/ \E t \in Threads : thread_entry(t)
    \/ \E t \in Threads : thread_post(t)
    \/ \E t \in Threads : thread_header(t)
    \/ \E t \in Threads : thread_probe(t)
    \/ \E t \in Threads : thread_request(t)

SpecThreads == InitThreads /\ [][NextThreads]_vars

(***************************************************************************)
(* Properties of concurrent fetches (checked under SpecThreads).           *)
(***************************************************************************)
\* a thread is between the credential exchange and the end of the probe
Refreshing(t) == threads[t].pc \in {"header", "probe"}

\* C22 as claimed: of two threads that found the same cutoff passed, at most
\* one performs the credential exchange, and no report request is sent
\* while another thread's refresh is in progress or with a header whose
\* token is not the client's current token.
C22_RefreshIsAtomic ==
    /\ [](\A t, u \in Threads :
            (t # u /\ threads[t].exchanged /\ threads[u].exchanged)
                => threads[t].seen_cutoff # threads[u].seen_cutoff)
    /\ [][\A t \in Threads :
            (threads[t].pc = "request" /\ threads'[t].pc = "done")
                => /\ authentication_header.authorization = access_token
                   /\ \A u \in Threads \ {t} : ~Refreshing(u)]_vars
====
